---------------------------- MODULE Spec2Model ----------------------------
(***************************************************************************)
(* Model of build.py: the static-site build of the Typst notes.            *)
(*                                                                         *)
(*   Spec          build(): the orchestrator, one action per step          *)
(*   SpecPreview   extract_preview(): the preview text of one note         *)
(*   SpecAssemble  the page collection / SVG inlining of one note          *)
(*                                                                         *)
(* Text is a sequence of one-character strings.                            *)
(***************************************************************************)
EXTENDS Integers, Sequences, FiniteSets, TLC

VARIABLES
    \* build()
    pc,             \* position in build()
    exc,            \* the exception that ended build(), "" while none has
    manifest,       \* notes/notes.json on disk
    notes_dir,      \* the note folders under notes/, by folder name
    dist,           \* the output directory dist/
    dist0,          \* history: dist/ as build() found it
    registry,       \* json.loads of the manifest
    entry,          \* position of the for loop in registry
    preview,        \* preview of the entry at hand
    notes_data,     \* the records appended so far
    notes_json,     \* the list serialised to dist/notes-data.json
    reported,       \* the count of the final print, -1 before it
    git_run,        \* outcome of the latest git log subprocess
    now,            \* the latest int(time.time()) read by build(), 0 before
    visited,        \* history: the registry positions whose iteration began
    exit_status,    \* history: registry position -> returncode of its compile
    \* extract_preview()
    pv_pc,          \* "idle" | "call" | "done"
    pv_text,        \* typ_path.read_text()
    pv_max_len,     \* max_len
    pv_result,      \* the returned preview
    \* page assembly of one note
    as_pc,          \* "idle" | "glob" | "sort" | "inline" | "clean" | "done"
    as_dir,         \* the files of dst_folder
    as_glob,        \* dst_folder.glob("page-*.svg"), in the order the OS lists it
    svg_files,      \* the sorted pages
    svg_k,          \* position of the for loop in svg_files
    svg_blocks,     \* the inlined page documents
    as_html,        \* the text written to index.html
    as_pages        \* the page documents the compiler wrote, by page number

b_vars == <<pc, exc, manifest, notes_dir, dist, dist0, registry, entry, preview,
            notes_data, notes_json, reported, git_run, now, visited,
            exit_status>>

pv_vars == <<pv_pc, pv_text, pv_max_len, pv_result>>

as_vars == <<as_pc, as_dir, as_glob, svg_files, svg_k, svg_blocks, as_html, as_pages>>

vars == <<b_vars, pv_vars, as_vars>>

----------------------------------------------------------------------------
(* Bounds *)

MaxTextLen == 5     \* longest source text of extract_preview
MaxCap == 3         \* largest max_len of extract_preview
MaxPages == 11      \* most pages the compiler writes for one note
MaxNotes == 3       \* longest registry
MaxTime == 2        \* latest commit time and latest wall-clock reading


----------------------------------------------------------------------------
(* The parts of the state a specification does not use stay at rest *)

PreviewIdle ==
    /\ pv_pc = "idle"
    /\ pv_text = <<>>
    /\ pv_max_len = 0
    /\ pv_result = <<>>

AssembleIdle ==
    /\ as_pc = "idle"
    /\ as_dir = {}
    /\ as_glob = <<>>
    /\ svg_files = <<>>
    /\ svg_k = 0
    /\ svg_blocks = <<>>
    /\ as_html = <<>>
    /\ as_pages = <<>>

BuildIdle ==
    /\ pc = "idle"
    /\ exc = ""
    /\ manifest = [state |-> "absent", entries |-> <<>>]
    /\ notes_dir = <<>>
    /\ dist = [exists |-> FALSE, root |-> {}, notes |-> <<>>]
    /\ dist0 = dist
    /\ registry = <<>>
    /\ entry = 0
    /\ preview = <<>>
    /\ notes_data = <<>>
    /\ notes_json = <<>>
    /\ reported = -1
    /\ git_run = [raised |-> FALSE, returncode |-> 0, stdout |-> <<>>]
    /\ now = 0
    /\ visited = {}
    /\ exit_status = <<>>

----------------------------------------------------------------------------
(* Characters and the regular expressions of extract_preview *)

\* the characters source texts are drawn from: a word character, blank,
\* newline, and the markup characters the five substitutions look for
SourceChars == {"a", " ", "\n", "#", "(", ")", "$", "*", "="}

\* every character a text can hold ("." comes from the ellipsis)
AllChars == SourceChars \cup {".", "_", "bq"}

\* \w restricted to AllChars
WordChars == {"a", "_"}

\* \s restricted to AllChars
WhiteSpace == {" ", "\n"}

\* the class of "*", "_" and the backquote, written "bq"
EmphasisChars == {"*", "_", "bq"}

Ellipsis == <<".", ".", ".">>

RECURSIVE RunEnd(_, _, _)
\* greedy X*: the first index >= i of s whose character is not in S
RunEnd(s, i, S) ==
    IF i <= Len(s) /\ s[i] \in S THEN RunEnd(s, i + 1, S) ELSE i

\* ^ under re.MULTILINE
AtLineStart(s, i) == i = 1 \/ s[i - 1] = "\n"

\* ^=+\s+.*$ matched at i: the index after the match, 0 when there is none
HeadingEnd(s, i) ==
    IF ~AtLineStart(s, i) THEN 0
    ELSE LET e == RunEnd(s, i, {"="})
             w == RunEnd(s, e, WhiteSpace)
         IN  IF e = i \/ w = e THEN 0
             ELSE RunEnd(s, w, AllChars \ {"\n"})

\* #\w+[^)\n]*\)? matched at i
DirectiveEnd(s, i) ==
    IF s[i] # "#" THEN 0
    ELSE LET w == RunEnd(s, i + 1, WordChars)
             a == RunEnd(s, w, AllChars \ {")", "\n"})
         IN  IF w = i + 1 THEN 0
             ELSE IF a <= Len(s) /\ s[a] = ")" THEN a + 1 ELSE a

\* \$[^$]*\$ matched at i
MathEnd(s, i) ==
    IF s[i] # "$" THEN 0
    ELSE LET c == RunEnd(s, i + 1, AllChars \ {"$"})
         IN  IF c <= Len(s) THEN c + 1 ELSE 0

\* one emphasis character matched at i
EmphasisEnd(s, i) == IF s[i] \in EmphasisChars THEN i + 1 ELSE 0

\* \s+ matched at i
SpacesEnd(s, i) ==
    LET e == RunEnd(s, i, WhiteSpace) IN IF e = i THEN 0 ELSE e

MatchEnd(p, s, i) ==
    CASE p = "heading"   -> HeadingEnd(s, i)
      [] p = "directive" -> DirectiveEnd(s, i)
      [] p = "math"      -> MathEnd(s, i)
      [] p = "emphasis"  -> EmphasisEnd(s, i)
      [] p = "spaces"    -> SpacesEnd(s, i)

RECURSIVE ReSubFrom(_, _, _, _)
\* re.sub from index i on: leftmost matches, left to right, not overlapping
ReSubFrom(p, repl, s, i) ==
    IF i > Len(s) THEN <<>>
    ELSE LET e == MatchEnd(p, s, i)
         IN  IF e = 0 THEN <<s[i]>> \o ReSubFrom(p, repl, s, i + 1)
             ELSE repl \o ReSubFrom(p, repl, s, e)

\* re.sub(p, repl, s)
ReSub(p, repl, s) == ReSubFrom(p, repl, s, 1)

RECURSIVE LStrip(_)
LStrip(s) ==
    IF s # <<>> /\ Head(s) \in WhiteSpace THEN LStrip(Tail(s)) ELSE s

RECURSIVE RStrip(_)
RStrip(s) ==
    IF s # <<>> /\ s[Len(s)] \in WhiteSpace
    THEN RStrip(SubSeq(s, 1, Len(s) - 1)) ELSE s

\* str.strip()
Strip(s) == RStrip(LStrip(s))

\* s.rsplit(" ", 1)[0]
RSplitHead(s) ==
    LET sp == {k \in 1..Len(s) : s[k] = " "}
    IN  IF sp = {} THEN s
        ELSE SubSeq(s, 1, (CHOOSE k \in sp : \A j \in sp : j <= k) - 1)

\* s[:n]
Take(s, n) == SubSeq(s, 1, IF n < Len(s) THEN n ELSE Len(s))

StripHeadings(text) == ReSub("heading", <<>>, text)

StripDirectives(text) == ReSub("directive", <<>>, text)

StripMath(text) == ReSub("math", <<>>, text)

StripEmphasis(text) == ReSub("emphasis", <<>>, text)

CollapseSpaces(text) == Strip(ReSub("spaces", <<" ">>, text))

\* the text of extract_preview before the length test
PlainText(text) ==
    CollapseSpaces(StripEmphasis(StripMath(StripDirectives(StripHeadings(text)))))

Truncate(text, max_len) ==
    IF Len(text) > max_len
    THEN RSplitHead(Take(text, max_len)) \o Ellipsis
    ELSE text

extract_preview(text, max_len) == Truncate(PlainText(text), max_len)


----------------------------------------------------------------------------
(* Page files and the inlining of their SVG documents (build, lines 91-137) *)

Digit == [c \in {"0", "1", "2", "3", "4", "5", "6", "7", "8", "9"} |->
            CASE c = "0" -> 0 [] c = "1" -> 1 [] c = "2" -> 2 [] c = "3" -> 3
              [] c = "4" -> 4 [] c = "5" -> 5 [] c = "6" -> 6 [] c = "7" -> 7
              [] c = "8" -> 8 [] c = "9" -> 9]

DigitChar == <<"0", "1", "2", "3", "4", "5", "6", "7", "8", "9">>

RECURSIVE ToDigits(_)
\* the decimal text of n >= 0, as the compiler's {n} and git's %ct print it
ToDigits(n) ==
    IF n < 10 THEN <<DigitChar[n + 1]>>
    ELSE Append(ToDigits(n \div 10), DigitChar[(n % 10) + 1])

ValueError == "ValueError"

RECURSIVE IntFrom(_, _)
IntFrom(s, acc) ==
    IF s = <<>> THEN acc ELSE IntFrom(Tail(s), 10 * acc + Digit[Head(s)])

\* int(s) raises ValueError unless s, a text without sign or blanks, is digits
IsDigits(s) == s # <<>> /\ \A k \in 1..Len(s) : s[k] \in DOMAIN Digit

\* int(s) for a text of digits
IntParse(s) == IntFrom(s, 0)

RECURSIVE Split(_, _)
\* s.split(sep)
Split(s, sep) ==
    LET at == {k \in 1..Len(s) : s[k] = sep}
    IN  IF at = {} THEN <<s>>
        ELSE LET k == CHOOSE j \in at : \A m \in at : j <= m
             IN  <<SubSeq(s, 1, k - 1)>> \o Split(SubSeq(s, k + 1, Len(s)), sep)

PagePrefix == <<"p", "a", "g", "e", "-">>

\* the name the compiler gives page n under the pattern page-{n}.svg
PageStem(n) == PagePrefix \o ToDigits(n)

\* the glob pattern page-*.svg
IsPageFile(f) ==
    /\ f.parent = "."
    /\ f.suffix = "svg"
    /\ Len(f.stem) >= Len(PagePrefix)
    /\ SubSeq(f.stem, 1, Len(PagePrefix)) = PagePrefix

\* key=lambda p: int(p.stem.split("-")[1])
PageKey(f) == IntParse(Split(f.stem, "-")[2])

RECURSIVE InsertByKey(_, _)
\* f put into the key-sorted sequence s behind every element whose key is
\* not larger (sorted() is stable)
InsertByKey(s, f) ==
    IF s = <<>> THEN <<f>>
    ELSE IF PageKey(s[Len(s)]) <= PageKey(f) THEN Append(s, f)
    ELSE Append(InsertByKey(SubSeq(s, 1, Len(s) - 1), f), s[Len(s)])

RECURSIVE SortedFrom(_, _)
SortedFrom(done, rest) ==
    IF rest = <<>> THEN done
    ELSE SortedFrom(InsertByKey(done, Head(rest)), Tail(rest))

RECURSIVE LexLess(_, _)
\* a < b as Python compares two texts of digits and letters
LexLess(a, b) ==
    IF b = <<>> THEN FALSE
    ELSE IF a = <<>> THEN TRUE
    ELSE IF Head(a) = Head(b) THEN LexLess(Tail(a), Tail(b))
    ELSE IF Head(a) \in DOMAIN Digit /\ Head(b) \in DOMAIN Digit
         THEN Digit[Head(a)] < Digit[Head(b)]
    ELSE Head(a) \in DOMAIN Digit

RECURSIVE InsertByName(_, _)
InsertByName(s, f) ==
    IF s = <<>> THEN <<f>>
    ELSE IF ~LexLess(f.stem, s[Len(s)].stem) THEN Append(s, f)
    ELSE Append(InsertByName(SubSeq(s, 1, Len(s) - 1), f), s[Len(s)])

RECURSIVE SortedByNameFrom(_, _)
SortedByNameFrom(done, rest) ==
    IF rest = <<>> THEN done
    ELSE SortedByNameFrom(InsertByName(done, Head(rest)), Tail(rest))

\* sorted(files) without the key: the pages in the order of their names
SortedByName(files) == SortedByNameFrom(<<>>, files)

\* sorted(files, key=lambda p: int(p.stem.split("-")[1]))
SortedPages(files) == SortedFrom(<<>>, files)

\* \s+width="[^"]*" (a = "W") or \s+height="[^"]*" (a = "H") matched at i:
\* a run of blanks and then the attribute; 0 when there is no match at i
SizeAttrEnd(a, s, i) ==
    LET e == RunEnd(s, i, {"ws"})
    IN  IF e > i /\ e <= Len(s) /\ s[e] = a THEN e + 1 ELSE 0

RECURSIVE ReSubFirst(_, _, _)
\* re.sub(pattern, '', s, count=1): the leftmost match removed
ReSubFirst(a, s, i) ==
    IF i > Len(s) THEN <<>>
    ELSE LET e == SizeAttrEnd(a, s, i)
         IN  IF e = 0 THEN <<s[i]>> \o ReSubFirst(a, s, i + 1)
             ELSE SubSeq(s, e, Len(s))

\* lines 101-102
StripSize(svg_content) == ReSubFirst("H", ReSubFirst("W", svg_content, 1), 1)

RECURSIVE Join(_)
\* "".join(blocks)
Join(blocks) ==
    IF blocks = <<>> THEN <<>> ELSE Head(blocks) \o Join(Tail(blocks))

HtmlHead(title) ==
    <<"<!DOCTYPE html>", "<head>", "<title>">> \o title
        \o <<"</title>", "<style>", "</head>", "<body>", "<nav>", "\n">>

HtmlTail == <<"\n", "</body>", "</html>", "\n">>

\* the f-string of lines 106-136
HtmlPage(title, blocks) == HtmlHead(title) \o Join(blocks) \o HtmlTail

----------------------------------------------------------------------------
(* SpecPreview: extract_preview applied to every bounded source text *)

RECURSIVE Texts(_)
Texts(n) ==
    IF n = 0 THEN {<<>>}
    ELSE LET shorter == Texts(n - 1)
         IN  shorter \cup {Append(t, c) : t \in {u \in shorter : Len(u) = n - 1},
                                          c \in SourceChars}

PreviewInit ==
    /\ pv_pc = "call"
    /\ pv_text \in Texts(MaxTextLen)
    /\ pv_max_len \in 1..MaxCap
    /\ pv_result = <<>>
    /\ AssembleIdle
    /\ BuildIdle

ExtractPreview ==
    /\ pv_pc = "call"
    /\ pv_result' = extract_preview(pv_text, pv_max_len)
    /\ pv_pc' = "done"
    /\ UNCHANGED <<pv_text, pv_max_len>>
    /\ UNCHANGED <<b_vars, as_vars>>

PreviewNext == ExtractPreview

SpecPreview == PreviewInit /\ [][PreviewNext]_vars


----------------------------------------------------------------------------
(* SpecAssemble: lines 91-141 of build() for one compiled note.  A page    *)
(* document is a sequence of tokens: "ws" is one blank character, "W" is   *)
(* width="..." and "H" is height="..."; every other token is text that     *)
(* holds none of them ("stroke-" before "W" spells stroke-width="..."; a   *)
(* digit is the page's own content: its number).                           *)

\* the shapes of page documents PageDoc knows
Shapes == 1..6

PageDoc(n, shape) ==
    LET open ==
          CASE shape = 1 -> <<"<svg", "ws", "W", "ws", "H", "ws", "viewBox", ">">>
            [] shape = 2 -> <<"<svg", "ws", "viewBox", "ws", "H", "ws", "W", ">">>
            [] shape = 3 -> <<"<svg", "ws", "W", "ws", "H", ">",
                              "<rect", "ws", "W", "ws", "H", "/>">>
            [] shape = 4 -> <<"<svg", "ws", "viewBox", ">", "<path", "ws", "stroke-", "W",
                              "ws", "W", "ws", "H", "ws", "H", "/>">>
            [] shape = 5 -> <<"<svg", "ws", "ws", "W", "ws", "ws", "H", ">">>
            [] shape = 6 -> <<"<svg", "ws", "viewBox", ">">>
    IN  open \o ToDigits(n) \o <<"</svg>">>

NoteTitle == <<"N", "o", "t", "e", "s">>

\* the text of a note's main.typ
NoteText ==
    <<"=", " ", "a", "\n", "#", "a", "(", "a", ")", "\n", "a", " ", "*", "a", "*">>

\* a file of a note folder: parent is "." for a file directly in the folder
MainTyp == [parent |-> ".", stem |-> <<"m", "a", "i", "n">>, suffix |-> "typ",
            content |-> NoteText]

\* the wrapper of lines 72-76
BuildTyp == [parent |-> ".", stem |-> <<"_", "b", "u", "i", "l", "d">>,
             suffix |-> "typ",
             content |-> <<"#", "s", "e", "t", "\n", "#", "i", "n", "c", "l", "u", "d", "e">>]

\* auxiliary files of a note: a second source file, one in a subfolder, an
\* image, and an SVG image whose name is not a page's
MacrosTyp == [parent |-> ".", stem |-> <<"m", "a", "c", "r", "o", "s">>,
              suffix |-> "typ", content |-> <<"#", "a">>]

PartTyp == [parent |-> "parts", stem |-> <<"p", "a", "r", "t">>,
            suffix |-> "typ", content |-> <<"a">>]

FigPng == [parent |-> ".", stem |-> <<"f", "i", "g">>, suffix |-> "png",
           content |-> <<>>]

FigSvg == [parent |-> ".", stem |-> <<"f", "i", "g">>, suffix |-> "svg",
           content |-> <<"<svg", "ws", "W", "ws", "H", ">", "</svg>">>]

PageFile(n, doc) ==
    [parent |-> ".", stem |-> PageStem(n), suffix |-> "svg", content |-> doc]

IndexHtml(text) ==
    [parent |-> ".", stem |-> <<"i", "n", "d", "e", "x">>, suffix |-> "html",
     content |-> text]

\* the glob pattern *.typ
IsTypFile(f) == f.parent = "." /\ f.suffix = "typ"

RECURSIVE SetToSeq(_)
SetToSeq(S) ==
    IF S = {} THEN <<>>
    ELSE LET x == CHOOSE y \in S : TRUE IN <<x>> \o SetToSeq(S \ {x})

Rotate(s, r) == SubSeq(s, r + 1, Len(s)) \o SubSeq(s, 1, r)

Reverse(s) == [k \in 1..Len(s) |-> s[Len(s) + 1 - k]]

\* dst_folder.glob("page-*.svg") gives the matching files of dir in the
\* order the directory lists them
GlobOrders(dir) ==
    LET s == SetToSeq({f \in dir : IsPageFile(f)})
    IN  {Rotate(s, r) : r \in 0..Len(s)} \cup {Reverse(s), SortedByName(s)}

AssembleInit ==
    /\ \E n \in 1..MaxPages, shift \in Shapes :
          as_pages = [k \in 1..n |-> PageDoc(k, ((k + shift) % Cardinality(Shapes)) + 1)]
    /\ as_dir = {PageFile(k, as_pages[k]) : k \in DOMAIN as_pages}
                    \cup {MainTyp, BuildTyp, MacrosTyp, FigPng, FigSvg}
    /\ as_pc = "glob"
    /\ as_glob = <<>>
    /\ svg_files = <<>>
    /\ svg_k = 0
    /\ svg_blocks = <<>>
    /\ as_html = <<>>
    /\ PreviewIdle
    /\ BuildIdle

\* dst_folder.glob("page-*.svg")
GlobPages ==
    /\ as_pc = "glob"
    /\ as_glob' \in GlobOrders(as_dir)
    /\ as_pc' = "sort"
    /\ UNCHANGED <<as_dir, svg_files, svg_k, svg_blocks, as_html, as_pages>>
    /\ UNCHANGED <<b_vars, pv_vars>>

\* lines 92-96
SortPages ==
    /\ as_pc = "sort"
    /\ svg_files' = SortedPages(as_glob)
    /\ svg_blocks' = <<>>
    /\ svg_k' = 1
    /\ as_pc' = "inline"
    /\ UNCHANGED <<as_dir, as_glob, as_html, as_pages>>
    /\ UNCHANGED <<b_vars, pv_vars>>

\* lines 97-104, one iteration
InlinePage ==
    /\ as_pc = "inline"
    /\ svg_k <= Len(svg_files)
    /\ LET svg_file == svg_files[svg_k]
       IN  /\ svg_file \in as_dir
           /\ svg_blocks' = Append(svg_blocks, StripSize(svg_file.content))
           /\ as_dir' = as_dir \ {svg_file}
    /\ svg_k' = svg_k + 1
    /\ UNCHANGED <<as_pc, as_glob, svg_files, as_html, as_pages>>
    /\ UNCHANGED <<b_vars, pv_vars>>

\* lines 106-137
WriteIndex ==
    /\ as_pc = "inline"
    /\ svg_k > Len(svg_files)
    /\ as_html' = HtmlPage(NoteTitle, svg_blocks)
    /\ as_dir' = as_dir \cup {IndexHtml(as_html')}
    /\ as_pc' = "clean"
    /\ UNCHANGED <<as_glob, svg_files, svg_k, svg_blocks, as_pages>>
    /\ UNCHANGED <<b_vars, pv_vars>>

\* lines 139-141
CleanTyp ==
    /\ as_pc = "clean"
    /\ as_dir' = {f \in as_dir : ~IsTypFile(f)}
    /\ as_pc' = "done"
    /\ UNCHANGED <<as_glob, svg_files, svg_k, svg_blocks, as_html, as_pages>>
    /\ UNCHANGED <<b_vars, pv_vars>>

AssembleNext == GlobPages \/ SortPages \/ InlinePage \/ WriteIndex \/ CleanTyp

SpecAssemble == AssembleInit /\ [][AssembleNext]_vars


----------------------------------------------------------------------------
(* build(): the environment *)

\* max_len of extract_preview
DefaultMaxLen == 200

AbsentFolder == [exists |-> FALSE, files |-> {}]

Folder(files) == [exists |-> TRUE, files |-> files]

\* what notes/<folder> can be: absent, without main.typ, or a note with
\* main.typ, a second source file, a source file in a subfolder and images
FolderStates ==
    {AbsentFolder,
     Folder({FigPng}),
     Folder({MainTyp, MacrosTyp, PartTyp, FigPng, FigSvg})}

\* the descriptors of a well-formed manifest: folder names are unique
Descriptor(k) == [title |-> <<"N">> \o ToDigits(k), folder |-> k, labels |-> <<>>]

Manifests ==
    {[state |-> "absent", entries |-> <<>>],
     [state |-> "malformed", entries |-> <<>>]}
        \cup {[state |-> "ok", entries |-> [k \in 1..n |-> Descriptor(k)]] :
                n \in 0..MaxNotes}

NoDist == [exists |-> FALSE, root |-> {}, notes |-> <<>>]

EmptyDist == [exists |-> TRUE, root |-> {}, notes |-> <<>>]

SiteAssets == {"index.html", "style.css", "script.js"}

\* what an earlier build left in dist/
OldDist ==
    [exists |-> TRUE,
     root |-> SiteAssets \cup {"notes-data.json"},
     notes |-> (1 :> {IndexHtml(HtmlPage(NoteTitle, <<>>)), FigPng})]

\* subprocess.run(["typst", ...]): the tool is not installed, or it ran
CompileRuns ==
    {[raised |-> TRUE, error |-> "FileNotFoundError"],
     [raised |-> FALSE, returncode |-> 0],
     [raised |-> FALSE, returncode |-> 1]}

\* subprocess.run(["git", ...]): git is not installed, the process cannot be
\* started, it exits nonzero outside a repository, it prints nothing for an
\* untracked path, it prints text that is no number, it prints the commit time
GitRuns ==
    {[raised |-> TRUE, error |-> "FileNotFoundError"],
     [raised |-> TRUE, error |-> "PermissionError"],
     [raised |-> FALSE, returncode |-> 128, stdout |-> <<>>],
     [raised |-> FALSE, returncode |-> 0, stdout |-> <<>>],
     [raised |-> FALSE, returncode |-> 0, stdout |-> <<"\n">>],
     [raised |-> FALSE, returncode |-> 0, stdout |-> <<"a", "a">>],
     [raised |-> FALSE, returncode |-> 0, stdout |-> <<"1", "a">>]}
        \cup {[raised |-> FALSE, returncode |-> 0, stdout |-> ToDigits(t)] :
                t \in 1..MaxTime}
        \cup {[raised |-> FALSE, returncode |-> 0,
               stdout |-> ToDigits(t) \o <<"\n">>] : t \in 1..MaxTime}

\* the pages the compiler writes for a note
CompiledPages == {PageFile(1, PageDoc(1, 1)), PageFile(2, PageDoc(2, 3))}

----------------------------------------------------------------------------
(* build(): its functions *)

IntResult(n) == [kind |-> "int", value |-> n]

NoneResult == [kind |-> "None"]

Raised(e) == [kind |-> "raise", error |-> e]

\* get_git_timestamp without its try/except
GitTimestampUnguarded(run) ==
    IF run.raised THEN Raised(run.error)
    ELSE LET ts == Strip(run.stdout)
         IN  IF ts = <<>> THEN NoneResult
             ELSE IF ~IsDigits(ts) THEN Raised(ValueError)
             ELSE IntResult(IntParse(ts))

\* get_git_timestamp (lines 17-31), from the outcome of subprocess.run
get_git_timestamp(run) ==
    IF run.raised THEN NoneResult
    ELSE LET ts == Strip(run.stdout)
         IN  IF ts = <<>> THEN NoneResult
             ELSE IF ~IsDigits(ts) THEN NoneResult
             ELSE IntResult(IntParse(ts))

\* shutil.rmtree(DIST_DIR) when it exists, then DIST_DIR.mkdir()
MkdirOverOld(d) == IF d.exists THEN d ELSE EmptyDist

RecreatedDist(d) == EmptyDist

\* every result counts as a success
AnyExit(result) == TRUE

\* result.returncode == 0
CompiledOk(result) == result.returncode = 0

\* dist/notes/<folder> holding files
WithFolder(d, folder, files) ==
    [d EXCEPT !.notes = (folder :> files) @@ d.notes]

RECURSIVE InlinedBlocks(_)
\* lines 96-103 for the sorted pages
InlinedBlocks(files) ==
    IF files = <<>> THEN <<>>
    ELSE <<StripSize(Head(files).content)>> \o InlinedBlocks(Tail(files))

\* lines 91-141: dst_folder after the pages are inlined and unlinked,
\* index.html is written and the *.typ files are unlinked
Assembled(files, title, listing) ==
    LET html == HtmlPage(title, InlinedBlocks(SortedPages(listing)))
    IN  {f \in (files \ {f \in files : IsPageFile(f)}) \cup {IndexHtml(html)} :
            ~IsTypFile(f)}

NoteRecord(e, timestamp, text) ==
    [title |-> e.title, folder |-> e.folder, labels |-> e.labels,
     timestamp |-> timestamp, preview |-> text]

RECURSIVE InsertDesc(_, _)
\* r put into the sequence s, sorted by timestamp descending, behind every
\* record whose timestamp is not smaller
InsertDesc(s, r) ==
    IF s = <<>> THEN <<r>>
    ELSE IF s[Len(s)].timestamp >= r.timestamp THEN Append(s, r)
    ELSE Append(InsertDesc(SubSeq(s, 1, Len(s) - 1), r), s[Len(s)])

RECURSIVE InsertAsc(_, _)
InsertAsc(s, r) ==
    IF s = <<>> THEN <<r>>
    ELSE IF s[Len(s)].timestamp <= r.timestamp THEN Append(s, r)
    ELSE Append(InsertAsc(SubSeq(s, 1, Len(s) - 1), r), s[Len(s)])

RECURSIVE SortAscFrom(_, _)
SortAscFrom(done, rest) ==
    IF rest = <<>> THEN done
    ELSE SortAscFrom(InsertAsc(done, Head(rest)), Tail(rest))

RECURSIVE SortDescFrom(_, _)
SortDescFrom(done, rest) ==
    IF rest = <<>> THEN done
    ELSE SortDescFrom(InsertDesc(done, Head(rest)), Tail(rest))

\* notes.sort(key=...) followed by notes.reverse()
SortedThenReversed(notes) == Reverse(SortAscFrom(<<>>, notes))

\* notes.sort(key=lambda n: n["timestamp"], reverse=True): list.sort is
\* stable, also with reverse=True
SortedByTimestampDesc(notes) == SortDescFrom(<<>>, notes)

----------------------------------------------------------------------------
(* Spec: build() *)

Init ==
    /\ pc = "start"
    /\ exc = ""
    /\ manifest \in Manifests
    /\ notes_dir \in [1..Len(manifest.entries) -> FolderStates]
    /\ dist \in {NoDist, OldDist}
    /\ dist0 = dist
    /\ registry = <<>>
    /\ entry = 0
    /\ preview = <<>>
    /\ notes_data = <<>>
    /\ notes_json = <<>>
    /\ reported = -1
    /\ git_run = [raised |-> FALSE, returncode |-> 0, stdout |-> <<>>]
    /\ now = 0
    /\ visited = {}
    /\ exit_status = <<>>
    /\ PreviewIdle
    /\ AssembleIdle

Abort(e) ==
    /\ pc' = "aborted"
    /\ exc' = e

\* lines 48-50
RecreateDist ==
    /\ pc = "start"
    /\ dist' = RecreatedDist(dist)
    /\ pc' = "load"
    /\ UNCHANGED <<exc, manifest, notes_dir, registry, entry, preview, notes_data,
                   notes_json, reported, git_run, now, visited, exit_status>>
    /\ UNCHANGED <<dist0, pv_vars, as_vars>>

\* lines 52-53
LoadRegistry ==
    /\ pc = "load"
    /\ manifest.state = "ok"
    /\ registry' = manifest.entries
    /\ notes_data' = <<>>
    /\ entry' = 1
    /\ pc' = "entry"
    /\ UNCHANGED <<exc, manifest, notes_dir, dist, preview, notes_json, reported,
                   git_run, now, visited, exit_status>>
    /\ UNCHANGED <<dist0, pv_vars, as_vars>>

\* line 52: read_text or json.loads raises
LoadRegistryFails ==
    /\ pc = "load"
    /\ manifest.state # "ok"
    /\ Abort(IF manifest.state = "absent" THEN "FileNotFoundError: notes.json"
             ELSE "JSONDecodeError")
    /\ UNCHANGED <<manifest, notes_dir, dist, registry, entry, preview, notes_data,
                   notes_json, reported, git_run, now, visited, exit_status>>
    /\ UNCHANGED <<dist0, pv_vars, as_vars>>

\* lines 55-64: the source folder is missing
SkipMissingFolder ==
    /\ pc = "entry"
    /\ entry <= Len(registry)
    /\ ~notes_dir[registry[entry].folder].exists
    /\ visited' = visited \cup {entry}
    /\ entry' = entry + 1
    /\ UNCHANGED <<pc, exc, manifest, notes_dir, dist, registry, preview, notes_data,
                   notes_json, reported, git_run, now, exit_status>>
    /\ UNCHANGED <<dist0, pv_vars, as_vars>>

\* lines 55-66
CopyTree ==
    /\ pc = "entry"
    /\ entry <= Len(registry)
    /\ LET folder == registry[entry].folder
       IN  /\ notes_dir[folder].exists
           /\ folder \notin DOMAIN dist.notes
           /\ dist' = WithFolder(dist, folder, notes_dir[folder].files)
    /\ visited' = visited \cup {entry}
    /\ pc' = "preview"
    /\ UNCHANGED <<exc, manifest, notes_dir, registry, entry, preview, notes_data,
                   notes_json, reported, git_run, now, exit_status>>
    /\ UNCHANGED <<dist0, pv_vars, as_vars>>

\* lines 68-76
PreviewAndWrapper ==
    /\ pc = "preview"
    /\ LET folder == registry[entry].folder
       IN  /\ MainTyp \in dist.notes[folder]
           /\ preview' = extract_preview(MainTyp.content, DefaultMaxLen)
           /\ dist' = WithFolder(dist, folder, dist.notes[folder] \cup {BuildTyp})
    /\ pc' = "compile"
    /\ UNCHANGED <<exc, manifest, notes_dir, registry, entry, notes_data,
                   notes_json, reported, git_run, now, visited, exit_status>>
    /\ UNCHANGED <<dist0, pv_vars, as_vars>>

\* lines 68-69 and 36: main.typ is not in the copied folder
PreviewFails ==
    /\ pc = "preview"
    /\ MainTyp \notin dist.notes[registry[entry].folder]
    /\ Abort("FileNotFoundError: main.typ")
    /\ UNCHANGED <<manifest, notes_dir, dist, registry, entry, preview, notes_data,
                   notes_json, reported, git_run, now, visited, exit_status>>
    /\ UNCHANGED <<dist0, pv_vars, as_vars>>

\* lines 80-85: the compiler cannot be started
CompilerMissing ==
    /\ pc = "compile"
    /\ \E result \in CompileRuns :
          /\ result.raised
          /\ Abort(result.error)
    /\ UNCHANGED <<manifest, notes_dir, dist, registry, entry, preview, notes_data,
                   notes_json, reported, git_run, now, visited, exit_status>>
    /\ UNCHANGED <<dist0, pv_vars, as_vars>>

\* lines 80-89: the compiler fails
CompileFails ==
    /\ pc = "compile"
    /\ \E result \in CompileRuns :
          /\ ~result.raised
          /\ ~CompiledOk(result)
          /\ exit_status' = (entry :> result.returncode) @@ exit_status
    /\ entry' = entry + 1
    /\ pc' = "entry"
    /\ UNCHANGED <<exc, manifest, notes_dir, dist, registry, preview, notes_data,
                   notes_json, reported, git_run, now, visited>>
    /\ UNCHANGED <<dist0, pv_vars, as_vars>>

\* lines 80-86: the compiler succeeds and leaves its pages
CompileSucceeds ==
    /\ pc = "compile"
    /\ \E result \in CompileRuns :
          /\ ~result.raised
          /\ CompiledOk(result)
          /\ exit_status' = (entry :> result.returncode) @@ exit_status
          /\ LET folder == registry[entry].folder
             IN  dist' = WithFolder(dist, folder,
                            dist.notes[folder]
                                \cup (IF result.returncode = 0 THEN CompiledPages ELSE {}))
    /\ pc' = "assemble"
    /\ UNCHANGED <<exc, manifest, notes_dir, registry, entry, preview, notes_data,
                   notes_json, reported, git_run, now, visited>>
    /\ UNCHANGED <<dist0, pv_vars, as_vars>>

\* lines 91-141
Assemble ==
    /\ pc = "assemble"
    /\ LET folder == registry[entry].folder
       IN  \E listing \in GlobOrders(dist.notes[folder]) :
              dist' = WithFolder(dist, folder,
                         Assembled(dist.notes[folder], registry[entry].title, listing))
    /\ pc' = "record"
    /\ UNCHANGED <<exc, manifest, notes_dir, registry, entry, preview, notes_data,
                   notes_json, reported, git_run, now, visited, exit_status>>
    /\ UNCHANGED <<dist0, pv_vars, as_vars>>

\* lines 143-155: time.time() is read only when git gave no time
Record ==
    /\ pc = "record"
    /\ \E run \in GitRuns, t \in 1..MaxTime :
          LET got == get_git_timestamp(run)
          IN  /\ git_run' = run
              /\ CASE got.kind = "raise" ->
                        /\ Abort(got.error)
                        /\ UNCHANGED <<entry, notes_data, now>>
                   [] got.kind = "None" ->
                        /\ now' = t
                        /\ notes_data' = Append(notes_data,
                                            NoteRecord(registry[entry], t, preview))
                        /\ entry' = entry + 1
                        /\ pc' = "entry"
                        /\ UNCHANGED exc
                   [] got.kind = "int" ->
                        /\ notes_data' = Append(notes_data,
                                            NoteRecord(registry[entry], got.value, preview))
                        /\ entry' = entry + 1
                        /\ pc' = "entry"
                        /\ UNCHANGED <<exc, now>>
    /\ UNCHANGED <<manifest, notes_dir, dist, registry, preview, notes_json,
                   reported, visited, exit_status>>
    /\ UNCHANGED <<dist0, pv_vars, as_vars>>

\* lines 157-166; the three files of site/ are there to be copied
Finish ==
    /\ pc = "entry"
    /\ entry > Len(registry)
    /\ notes_data' = SortedByTimestampDesc(notes_data)
    /\ notes_json' = notes_data'
    /\ dist' = [dist EXCEPT !.root = dist.root \cup {"notes-data.json"} \cup SiteAssets]
    /\ reported' = Len(notes_data')
    /\ pc' = "done"
    /\ UNCHANGED <<exc, manifest, notes_dir, registry, entry, preview,
                   git_run, now, visited, exit_status>>
    /\ UNCHANGED <<dist0, pv_vars, as_vars>>

Next ==
    \/ RecreateDist
    \/ LoadRegistry
    \/ LoadRegistryFails
    \/ SkipMissingFolder
    \/ CopyTree
    \/ PreviewAndWrapper
    \/ PreviewFails
    \/ CompilerMissing
    \/ CompileFails
    \/ CompileSucceeds
    \/ Assemble
    \/ Record
    \/ Finish

Spec == Init /\ [][Next]_vars


----------------------------------------------------------------------------
(* Claims about build(), checked under Spec *)

\* the records of notes-data.json that come from the descriptor at position k
RecordsOf(k) ==
    {j \in 1..Len(notes_json) : notes_json[j].folder = registry[k].folder}

\* the source folder of descriptor k exists and its compile returned 0
Built(k) ==
    /\ notes_dir[registry[k].folder].exists
    /\ k \in DOMAIN exit_status
    /\ exit_status[k] = 0

\* C1: when build() completes, notes-data.json holds exactly one record for
\* each descriptor whose source folder exists and whose compile returned 0,
\* none for a descriptor whose folder is missing or whose compile failed, and
\* every descriptor of the registry was processed, whatever was skipped
\* before it.
C1_OneRecordPerBuiltDescriptor ==
    pc = "done" =>
        /\ visited = 1..Len(registry)
        /\ \A k \in 1..Len(registry) :
              Cardinality(RecordsOf(k)) = IF Built(k) THEN 1 ELSE 0
        /\ \A j \in 1..Len(notes_json) :
              \E k \in 1..Len(registry) : j \in RecordsOf(k)

\* a build that skipped a missing folder, then had a compile fail, then
\* built a note
C1_Witness ==
    /\ pc = "done"
    /\ \E k, m, n \in 1..Len(registry) :
          /\ k < m /\ m < n
          /\ ~notes_dir[registry[k].folder].exists
          /\ m \in DOMAIN exit_status /\ exit_status[m] # 0
          /\ Built(n) /\ RecordsOf(n) # {}

\* the position in the registry of the descriptor a record comes from
RegistryPosition(r) ==
    CHOOSE k \in 1..Len(registry) : registry[k].folder = r.folder

\* C2: the records serialised to notes-data.json are ordered by timestamp
\* non-increasing, and records with equal timestamps keep the order of their
\* descriptors in the registry.
C2_SortedDescendingAndStable ==
    pc = "done" =>
        \A a, b \in 1..Len(notes_json) :
            a < b =>
                /\ notes_json[a].timestamp >= notes_json[b].timestamp
                /\ notes_json[a].timestamp = notes_json[b].timestamp =>
                      RegistryPosition(notes_json[a]) < RegistryPosition(notes_json[b])

\* a build whose output holds two records with equal timestamps and a record
\* the sort moved in front of an earlier descriptor's
C2_Witness ==
    /\ pc = "done"
    /\ \E a, b \in 1..Len(notes_json) :
          a < b /\ notes_json[a].timestamp = notes_json[b].timestamp
    /\ \E a, b \in 1..Len(notes_json) :
          a < b /\ RegistryPosition(notes_json[a]) > RegistryPosition(notes_json[b])

\* C3: only a missing or malformed manifest ends build() early: with a
\* well-formed manifest, whatever the note folders hold and whatever the
\* compiler and git do, build() does not abort, and where it completes it
\* has written notes-data.json and reported the number of records.
C3_OnlyManifestErrorsAbort ==
    /\ pc = "aborted" => manifest.state # "ok"
    /\ pc = "done" =>
          /\ "notes-data.json" \in dist.root
          /\ reported = Len(notes_json)

\* C4: when build() completes, no folder dist/notes/<folder> holds a source
\* file (suffix typ): neither main.typ, nor another .typ file, nor the
\* wrapper _build.typ, also for a descriptor whose compile failed.
C4_NoSourceLeftInDist ==
    pc = "done" =>
        \A folder \in DOMAIN dist.notes :
            \A f \in dist.notes[folder] : f.suffix # "typ"

\* the commit time a git run printed: 0 when it printed none
PrintedTime(run) ==
    IF run.raised THEN 0
    ELSE LET ts == {t \in 1..MaxTime : run.stdout \in {ToDigits(t), ToDigits(t) \o <<"\n">>}}
         IN  IF ts = {} THEN 0 ELSE CHOOSE t \in ts : TRUE

\* C9: resolving the timestamp never raises into build(): whatever the git
\* query did, get_git_timestamp returns an integer or None, the record's
\* timestamp is the commit time when git printed one and the wall-clock
\* reading otherwise, and every record's timestamp is an integer.
C9_TimestampNeverRaises ==
    /\ get_git_timestamp(git_run).kind \in {"int", "None"}
    /\ pc = "aborted" =>
          exc \in {"FileNotFoundError: notes.json", "JSONDecodeError",
                   "FileNotFoundError: main.typ", "FileNotFoundError"}
    /\ \A j \in 1..Len(notes_data) : notes_data[j].timestamp \in Nat
    /\ (pc \in {"entry", "preview", "compile", "assemble"} /\ notes_data # <<>>) =>
          notes_data[Len(notes_data)].timestamp =
              IF PrintedTime(git_run) # 0 THEN PrintedTime(git_run) ELSE now

\* a record got a commit time, and after it a record was appended although
\* git could not be started: its timestamp is the wall-clock reading
C9_Witness ==
    /\ pc = "entry"
    /\ git_run.raised
    /\ now > 0
    /\ Len(notes_data) > 1
    /\ notes_data[Len(notes_data)].timestamp = now
    /\ notes_data[1].timestamp # now

\* C10: build() deletes and recreates dist/ before it reads the manifest, so
\* when the manifest is read dist/ exists and is empty, and a build that a
\* missing or malformed manifest aborts leaves dist/ existing and empty,
\* whatever an earlier build had left in it.
C10_DistEmptiedBeforeManifestRead ==
    /\ pc = "load" => dist = EmptyDist
    /\ (pc = "aborted" /\ manifest.state # "ok") => dist = EmptyDist

\* a malformed manifest aborted a build that had found an earlier build's
\* output in dist/
C10_Witness ==
    /\ pc = "aborted"
    /\ manifest.state = "malformed"
    /\ dist0 = OldDist
    /\ dist = EmptyDist

----------------------------------------------------------------------------
(* Claims about the page assembly, checked under SpecAssemble *)

\* the positions of the attributes a of document d: the token a behind a blank
AttrAt(d, a) == {j \in 2..Len(d) : d[j] = a /\ d[j - 1] = "ws"}

\* d without its first attribute a and the blanks in front of it
WithoutFirstAttr(d, a) ==
    IF AttrAt(d, a) = {} THEN d
    ELSE LET j == CHOOSE x \in AttrAt(d, a) : \A y \in AttrAt(d, a) : x <= y
             blanks == {m \in 1..(j - 1) : \A q \in m..(j - 1) : d[q] = "ws"}
             i == CHOOSE x \in blanks : \A y \in blanks : x <= y
         IN  SubSeq(d, 1, i - 1) \o SubSeq(d, j + 1, Len(d))

RECURSIVE ExpectedBody(_)
\* pages 1..n, each without its first width and height, one after the other
ExpectedBody(n) ==
    IF n = 0 THEN <<>>
    ELSE ExpectedBody(n - 1)
            \o WithoutFirstAttr(WithoutFirstAttr(as_pages[n], "W"), "H")

\* C8: for the pages page-1.svg .. page-N.svg of a note, index.html embeds
\* exactly N blocks, in ascending page number, with nothing between them, and
\* each block is its page document without its first width attribute and its
\* first height attribute (an attribute goes with the blanks in front of it)
\* and otherwise unchanged.
C8_PagesInlinedInNumericOrder ==
    as_pc \in {"clean", "done"} =>
        /\ Len(svg_blocks) = Len(as_pages)
        /\ \A k \in 1..Len(as_pages) :
              svg_blocks[k] = WithoutFirstAttr(WithoutFirstAttr(as_pages[k], "W"), "H")
        /\ as_html = HtmlHead(NoteTitle) \o ExpectedBody(Len(as_pages)) \o HtmlTail
        /\ Cardinality({j \in 1..Len(as_html) : as_html[j] = "<svg"}) = Len(as_pages)

\* more than nine pages, listed by the OS in another order than their
\* numbers, one of them with a second width attribute
C8_Witness ==
    /\ as_pc = "done"
    /\ Len(as_pages) > 9
    /\ as_glob # svg_files
    /\ \E k \in 1..Len(as_pages) : Cardinality(AttrAt(as_pages[k], "W")) > 1

----------------------------------------------------------------------------
(* Claims about extract_preview, checked under SpecPreview *)

EndsWithEllipsis(s) ==
    Len(s) >= 3 /\ SubSeq(s, Len(s) - 2, Len(s)) = Ellipsis

\* C5: the preview extract_preview returns is never longer than max_len, and
\* it ends with the ellipsis marker exactly when the collapsed, stripped text
\* is longer than max_len.
C5_PreviewWithinCap ==
    pv_pc = "done" =>
        /\ Len(pv_result) <= pv_max_len
        /\ EndsWithEllipsis(pv_result) <=> Len(PlainText(pv_text)) > pv_max_len

\* a prefix of length k ends at a whole-word boundary: it is empty, or its last
\* character ends a word (the next character is a blank or the end of the text)
AtWordBoundary(c, k) ==
    k = 0 \/ (c[k] # " " /\ (k = Len(c) \/ c[k + 1] = " "))

\* the longest prefix of c of length <= n that ends at a whole-word boundary
LongestWholeWordPrefix(c, n) ==
    LET ks == {k \in 0..n : k <= Len(c) /\ AtWordBoundary(c, k)}
    IN  SubSeq(c, 1, CHOOSE k \in ks : \A j \in ks : j <= k)

\* C6: a collapsed text longer than max_len is returned as its longest prefix
\* of length <= max_len that ends at a whole-word boundary, followed by the
\* ellipsis marker; a collapsed text that is not longer is returned verbatim.
C6_TruncatesAtLastWholeWord ==
    pv_pc = "done" =>
        LET c == PlainText(pv_text)
        IN  pv_result = IF Len(c) > pv_max_len
                        THEN LongestWholeWordPrefix(c, pv_max_len) \o Ellipsis
                        ELSE c

\* the directive token as claimed, matched at i: the marker "#", the
\* identifier, and the argument list "(" ... ")" when one directly follows on
\* the same line; 0 when there is no directive at i
ClaimedDirectiveEnd(s, i) ==
    IF s[i] # "#" THEN 0
    ELSE LET w == RunEnd(s, i + 1, WordChars)
             a == RunEnd(s, w + 1, AllChars \ {")", "\n"})
         IN  IF w = i + 1 THEN 0
             ELSE IF w <= Len(s) /\ s[w] = "(" /\ a <= Len(s) /\ s[a] = ")"
                  THEN a + 1
                  ELSE w

RECURSIVE ClaimedStripFrom(_, _)
ClaimedStripFrom(s, i) ==
    IF i > Len(s) THEN <<>>
    ELSE LET e == ClaimedDirectiveEnd(s, i)
         IN  IF e = 0 THEN <<s[i]>> \o ClaimedStripFrom(s, i + 1)
             ELSE ClaimedStripFrom(s, e)

\* C7: stripping a directive removes only the marker, the identifier and the
\* argument list that directly follows it, so the preview is the one computed
\* from the text with exactly those tokens removed: every other character of
\* the directive's line reaches the preview.
C7_DirectiveStripKeepsRestOfLine ==
    pv_pc = "done" =>
        pv_result =
            Truncate(CollapseSpaces(StripEmphasis(StripMath(
                ClaimedStripFrom(StripHeadings(pv_text), 1)))), pv_max_len)

=============================================================================
